---- MODULE Spec2Model ----
(***************************************************************************)
(* Ingestion-and-retrieval pipeline of the university assistant:           *)
(*   src/src/simple_chunker.py   SimpleTokenChunker                        *)
(*   src/src/chunker.py          TextChunker                               *)
(*   src/src/qdrant_rest.py      QdrantRESTClient                          *)
(*   src/src/vector_store.py     VectorStore (SDK client)                  *)
(*   src/src/ingest.py           IngestionPipeline                         *)
(*                                                                         *)
(* Two state machines share the module.  The chunker machine (SpecChunk)   *)
(* runs SimpleTokenChunker.chunk one loop iteration per step.  The store   *)
(* machine (Spec, SpecRace) runs the clients of one Qdrant collection one  *)
(* HTTP request per step.                                                  *)
(***************************************************************************)
EXTENDS Integers, Sequences, FiniteSets, TLC

VARIABLES
  \* ---- chunker machine --------------------------------------------------
  text,            \* the argument of chunk(): a string, as a token sequence
  chunk_size,      \* self.chunk_size
  chunk_overlap,   \* self.chunk_overlap
  paragraphs,      \* the paragraphs the for loop has still to visit
  sentences,       \* the sentences the inner for loop has still to visit
  chunks,          \* the list `chunks`
  current_chunk,   \* the string `current_chunk`
  current_tokens,  \* the counter `current_tokens`
  cpc              \* position in chunk(): "off", "call", "loop", "sentences", "done"

VARIABLES
  \* ---- the Qdrant server: one collection --------------------------------
  exists,          \* the collection is present on the server
  config,          \* its vectors config: [size, distance]
  points,          \* its points: id -> [vector, payload]
  assigned,        \* history: id -> the first point ever stored under the id
  \* ---- the clients (one QdrantRESTClient / VectorStore / pipeline each) --
  use_rest,        \* client -> TRUE: QdrantRESTClient, FALSE: SDK VectorStore
  pc,              \* client -> the request or statement it is about to run
  stack,           \* client -> return labels of the calls in progress
  loc,             \* client -> the locals of the operation in progress
  hist,            \* client -> its last two finished operations, oldest first
  budget,          \* client -> top-level operations it may still start
  nfaults          \* network failures injected so far

chunkVars == <<text, chunk_size, chunk_overlap, paragraphs, sentences, chunks,
               current_chunk, current_tokens, cpc>>

serverVars == <<exists, config, points, assigned>>

clientVars == <<use_rest, pc, stack, loc, hist, budget>>

storeVars == <<serverVars, clientVars, nfaults>>

vars == <<chunkVars, storeVars>>

----------------------------------------------------------------------------
(* Bounds of the chunker machine. *)
MaxWords == 4
MaxChunkSize == 3

----------------------------------------------------------------------------
(***************************************************************************)
(* Strings.  A string is a sequence of tokens.  A word token is a maximal  *)
(* run of non-whitespace characters: `id` identifies the word (its place   *)
(* in the input) and `punct` says that it ends in a run of '.', '!', '?'.  *)
(* A separator token (id = 0) is a run of whitespace: `blank` says that    *)
(* the run holds a blank line (matches \n\s*\n); otherwise it is ordinary  *)
(* whitespace.  These are the only features of a string the chunker reads. *)
(***************************************************************************)
Word(i, p) == [id |-> i, punct |-> p, blank |-> FALSE]
SP == [id |-> 0, punct |-> FALSE, blank |-> FALSE]
BL == [id |-> 0, punct |-> FALSE, blank |-> TRUE]
IsWord(t) == t.id > 0

Min(a, b) == IF a < b THEN a ELSE b

\* str.split(): the whitespace-delimited words
split(s) == SelectSeq(s, IsWord)

\* str.strip(): without its leading and trailing whitespace
RECURSIVE lstrip(_)
lstrip(s) == IF s = << >> \/ IsWord(Head(s)) THEN s ELSE lstrip(Tail(s))

RECURSIVE rstrip(_)
rstrip(s) ==
  IF s = << >> \/ IsWord(s[Len(s)]) THEN s ELSE rstrip(SubSeq(s, 1, Len(s) - 1))

strip(s) == rstrip(lstrip(s))

\* ' '.join(words)
RECURSIVE join(_)
join(ws) ==
  IF Len(ws) <= 1 THEN ws ELSE <<Head(ws), SP>> \o join(Tail(ws))

\* lst[-k:] as Python evaluates it: -0 is 0, so lst[-0:] is the whole list
LastSlice(lst, k) ==
  IF k = 0 THEN lst
  ELSE SubSeq(lst, Len(lst) - Min(k, Len(lst)) + 1, Len(lst))

\* re.split(r'\n\s*\n', s): the pieces between blank-line separators
RECURSIVE SplitBlank(_, _)
SplitBlank(s, acc) ==
  IF s = << >> THEN <<acc>>
  ELSE IF Head(s).id = 0 /\ Head(s).blank
       THEN <<acc>> \o SplitBlank(Tail(s), << >>)
       ELSE SplitBlank(Tail(s), Append(acc, Head(s)))

\* paragraphs = [p.strip() for p in re.split(...) if p.strip()]
RECURSIVE StripNonEmpty(_)
StripNonEmpty(ps) ==
  IF ps = << >> THEN << >>
  ELSE IF strip(Head(ps)) = << >> THEN StripNonEmpty(Tail(ps))
       ELSE <<strip(Head(ps))>> \o StripNonEmpty(Tail(ps))

Paragraphs(s) == StripNonEmpty(SplitBlank(strip(s), << >>))

\* re.split(r'[.!?]+\s+', paragraph): a word ending in punctuation that is
\* followed by whitespace ends a piece; the punctuation and the whitespace
\* are the delimiter and are dropped
RECURSIVE SplitSentences(_, _)
SplitSentences(s, acc) ==
  IF s = << >> THEN <<acc>>
  ELSE IF IsWord(Head(s)) /\ Head(s).punct /\ Len(s) > 1 /\ ~IsWord(s[2])
       THEN <<Append(acc, Word(Head(s).id, FALSE))>>
              \o SplitSentences(lstrip(Tail(s)), << >>)
       ELSE SplitSentences(Tail(s), Append(acc, Head(s)))

Sentences(paragraph) == SplitSentences(paragraph, << >>)

\* Chunk(text, token_count): token_count or len(text.split())
Chunk(t, n) == [text |-> t, token_count |-> IF n # 0 THEN n ELSE Len(split(t))]

----------------------------------------------------------------------------
(***************************************************************************)
(* One iteration of the loops of SimpleTokenChunker.chunk, on the loop     *)
(* state st = [chunks, current_chunk, current_tokens].                     *)
(***************************************************************************)
\* lines 56-68: one sentence of an oversized paragraph
SentenceIter(st, sentence, size, overlap) ==
  IF strip(sentence) = << >> THEN st
  ELSE LET sentence_tokens == Len(split(sentence)) IN
       IF st.current_tokens + sentence_tokens > size /\ st.current_chunk # << >>
       THEN LET overlap_text == join(LastSlice(split(st.current_chunk), overlap))
                new == IF overlap_text # << >>
                       THEN overlap_text \o <<SP>> \o sentence
                       ELSE sentence
            IN [chunks |-> Append(st.chunks, Chunk(st.current_chunk, st.current_tokens)),
                current_chunk |-> new,
                current_tokens |-> Len(split(new))]
       ELSE [chunks |-> st.chunks,
             current_chunk |-> IF st.current_chunk # << >>
                               THEN st.current_chunk \o <<SP>> \o sentence
                               ELSE sentence,
             current_tokens |-> st.current_tokens + sentence_tokens]

\* lines 71-79: a paragraph that fits the budget on its own
RegularIter(st, paragraph, size, overlap) ==
  LET paragraph_tokens == Len(split(paragraph)) IN
  IF st.current_tokens + paragraph_tokens > size /\ st.current_chunk # << >>
  THEN LET overlap_words == LastSlice(split(st.current_chunk), overlap)
           new == join(overlap_words) \o <<SP>> \o paragraph
       IN [chunks |-> Append(st.chunks, Chunk(st.current_chunk, st.current_tokens)),
           current_chunk |-> new,
           current_tokens |-> Len(split(new))]
  ELSE [chunks |-> st.chunks,
        current_chunk |-> IF st.current_chunk # << >>
                          THEN st.current_chunk \o <<BL>> \o paragraph
                          ELSE paragraph,
        current_tokens |-> st.current_tokens + paragraph_tokens]

\* line 53: the paragraph alone exceeds the budget
Oversized(paragraph, size) == Len(split(paragraph)) > size

RECURSIVE SentenceLoop(_, _, _, _)
SentenceLoop(st, ss, size, overlap) ==
  IF ss = << >> THEN st
  ELSE SentenceLoop(SentenceIter(st, Head(ss), size, overlap), Tail(ss), size, overlap)

RECURSIVE ParagraphLoop(_, _, _, _)
ParagraphLoop(st, ps, size, overlap) ==
  IF ps = << >> THEN st
  ELSE ParagraphLoop(
         IF Oversized(Head(ps), size)
         THEN SentenceLoop(st, Sentences(Head(ps)), size, overlap)
         ELSE RegularIter(st, Head(ps), size, overlap),
         Tail(ps), size, overlap)

\* The return of chunk without the final chunk
FinalChunksUnsealed(st) == st.chunks

\* lines 81-85: the final chunk
FinalChunks(st) ==
  IF st.current_chunk # << >>
  THEN Append(st.chunks, Chunk(st.current_chunk, st.current_tokens))
  ELSE st.chunks

EmptyLoop == [chunks |-> << >>, current_chunk |-> << >>, current_tokens |-> 0]

\* SimpleTokenChunker.chunk as a function of its argument
chunk(s, size, overlap) ==
  IF s = << >> \/ strip(s) = << >> THEN << >>
  ELSE FinalChunks(ParagraphLoop(EmptyLoop, Paragraphs(s), size, overlap))

----------------------------------------------------------------------------
(* Bounds of the store machine. *)
MaxOps == 2        \* top-level operations of the single client
MaxFaults == 1     \* network failures injected in a run
MaxInit == 2       \* points the collection may hold at the start

----------------------------------------------------------------------------
(***************************************************************************)
(* Configuration (src/src/config.py) and the data of the store machine.    *)
(***************************************************************************)
Clients == {1, 2}

CHUNK_SIZE == 512
CHUNK_OVERLAP == 50
EMBEDDING_MODEL == "text-embedding-3-small"
QDRANT_COLLECTION_NAME == "university_docs"
batch_size == 100

\* _get_embedding_dim / _get_embedding_dimension
_get_embedding_dim(model) ==
  IF model \in {"text-embedding-3-small", "text-embedding-ada-002"} THEN 1536
  ELSE IF model = "text-embedding-3-large" THEN 3072
  ELSE 1536

NoConfig == [size |-> 0, distance |-> "none"]
NoPoints == [id \in {} |-> 0]

\* points_count of the collection
Count == Cardinality(DOMAIN points)

\* The embedding service: a vector that stands for the text it embeds
Embed(t) == [of |-> t]

\* _create_embeddings: one vector per text, in the order of the texts
_create_embeddings(ts) == [i \in 1..Len(ts) |-> Embed(ts[i])]

\* {**meta, "text": text}
Payload(meta, t) ==
  [k \in DOMAIN meta \cup {"text"} |-> IF k = "text" THEN t ELSE meta[k]]

\* "id": offset + i + 1
PointIdFromOne(offset, i) == offset + i + 1

\* "id": i
PointIdNoOffset(offset, i) == i

\* "id": offset + i
PointId(offset, i) == offset + i

\* BuildPoints with the payload of the first chunk on every point
BuildPointsFirstPayload(ts, es, ms, offset) ==
  [j \in 1..Min(Len(ts), Min(Len(es), Len(ms))) |->
     [id |-> PointId(offset, j - 1), vector |-> es[j], payload |-> Payload(ms[1], ts[1])]]

\* lines 115-121: enumerate(zip(texts, embeddings, metadatas)), i from 0
BuildPoints(ts, es, ms, offset) ==
  [j \in 1..Min(Len(ts), Min(Len(es), Len(ms))) |->
     [id |-> PointId(offset, j - 1), vector |-> es[j], payload |-> Payload(ms[j], ts[j])]]

\* points[i:i+batch_size-1]
BatchShort(ps, i, size) == SubSeq(ps, i + 1, Min(i + size - 1, Len(ps)))

\* points[i:i+batch_size], i from 0
Batch(ps, i, size) == SubSeq(ps, i + 1, Min(i + size, Len(ps)))

\* The server's upsert: a point replaces the stored point of the same id
\* (the last one of the request, should the request repeat an id)
Upsert(store, batch) ==
  LET ids == {batch[j].id : j \in DOMAIN batch}
      at(id) == CHOOSE k \in DOMAIN batch :
                  /\ batch[k].id = id
                  /\ \A m \in (k + 1)..Len(batch) : batch[m].id # id
  IN [id \in ids |-> [vector |-> batch[at(id)].vector,
                      payload |-> batch[at(id)].payload]] @@ store

\* History: the first point stored under each id
Remember(hist_, store) ==
  [id \in DOMAIN hist_ \cup DOMAIN store |->
     IF id \in DOMAIN hist_ THEN hist_[id] ELSE store[id]]

\* A one-word text, and the chunk metadata of chunk_documents
OneWord(i) == <<Word(i, FALSE)>>
Meta(source, index) == [source |-> source, chunk_index |-> index]

\* The points an earlier run of the pipeline left in the collection
OldPoints(m) ==
  [id \in 0..(m - 1) |->
     [vector |-> Embed(OneWord(900 + id)),
      payload |-> Payload(Meta("old.txt", id), OneWord(900 + id))]]

----------------------------------------------------------------------------
(***************************************************************************)
(* The file system the pipeline reads, DocumentExtractor and TextChunker.  *)
(***************************************************************************)
File(name, suffix, nested, content, corrupt) ==
  [name |-> name, suffix |-> suffix, nested |-> nested, content |-> content,
   corrupt |-> corrupt]

\* The directories of the runs: "missing" does not exist
DataDirs == {"missing", "empty", "data", "mixed", "single", "broken"}

DirExists(dir) == dir # "missing"

DirFiles(dir) ==
  IF dir = "data"
  THEN <<File("a.txt", ".txt", FALSE,
              <<Word(1, FALSE), SP, Word(2, TRUE), BL, Word(3, FALSE)>>, FALSE),
         File("c.md", ".md", TRUE, <<Word(4, FALSE), SP, Word(5, FALSE)>>, FALSE)>>
  ELSE IF dir = "mixed"
  THEN <<File("b.pdf", ".pdf", FALSE, <<Word(6, FALSE)>>, TRUE),
         File("a.txt", ".txt", FALSE, <<Word(1, FALSE), BL, Word(2, FALSE), SP>>, FALSE)>>
  ELSE IF dir = "single"
  THEN <<File("a.txt", ".txt", FALSE,
              <<Word(1, FALSE), BL, Word(2, TRUE), BL, Word(3, FALSE)>>, FALSE)>>
  ELSE IF dir = "broken"
  THEN <<File("b.pdf", ".pdf", FALSE, <<Word(6, FALSE)>>, TRUE),
         File("n.docx", ".docx", FALSE, <<Word(7, FALSE)>>, FALSE)>>
  ELSE << >>

\* directory.glob(ext) and directory.glob("**/" + ext): the recursive
\* pattern also matches the files of the directory itself
Glob(dir, suffix, recursive) ==
  SelectSeq(DirFiles(dir), LAMBDA f : f.suffix = suffix /\ (recursive \/ ~f.nested))

\* lines 61-65 of pdf_extractor.py
GlobAll(dir) ==
  Glob(dir, ".pdf", FALSE) \o Glob(dir, ".pdf", TRUE) \o
  Glob(dir, ".txt", FALSE) \o Glob(dir, ".txt", TRUE) \o
  Glob(dir, ".md", FALSE) \o Glob(dir, ".md", TRUE)

\* extract_text without the errors: every file gives its content
extract_text_unchecked(f) == [ok |-> TRUE, text |-> f.content]

\* extract_text: [ok, text]; ok = FALSE stands for the exception raised
extract_text(f) ==
  IF f.corrupt THEN [ok |-> FALSE, text |-> << >>]
  ELSE IF f.suffix \in {".txt", ".md"} THEN [ok |-> TRUE, text |-> f.content]
  ELSE IF f.suffix = ".pdf" THEN [ok |-> TRUE, text |-> strip(f.content \o <<SP>>)]
  ELSE [ok |-> FALSE, text |-> << >>]

\* results.append((name, text)): a list in place of the dict
DictSetAppend(d, name, t) == Append(d, [name |-> name, text |-> t])

\* results[name] = text on a dict kept as a sequence of [name, text] entries
DictSet(d, name, t) ==
  IF \E k \in DOMAIN d : d[k].name = name
  THEN [k \in DOMAIN d |-> IF d[k].name = name THEN [name |-> name, text |-> t] ELSE d[k]]
  ELSE Append(d, [name |-> name, text |-> t])

\* lines 67-75 of pdf_extractor.py: a file that fails is skipped
RECURSIVE ExtractLoop(_, _)
ExtractLoop(files, results) ==
  IF files = << >> THEN results
  ELSE LET r == extract_text(Head(files)) IN
       ExtractLoop(Tail(files),
                   IF r.ok THEN DictSet(results, Head(files).name, r.text) ELSE results)

extract_from_directory(dir) == ExtractLoop(GlobAll(dir), << >>)

\* TextChunker.chunk_text
chunk_text(t, size, overlap) ==
  IF t = << >> \/ strip(t) = << >> THEN << >> ELSE chunk(t, size, overlap)

\* TextChunker.chunk_documents
RECURSIVE chunk_documents(_, _, _)
chunk_documents(documents, size, overlap) ==
  IF documents = << >> THEN << >>
  ELSE LET cs == chunk_text(Head(documents).text, size, overlap) IN
       [i \in 1..Len(cs) |->
          [text |-> cs[i].text, metadata |-> Meta(Head(documents).name, i - 1)]]
       \o chunk_documents(Tail(documents), size, overlap)

\* format_for_qdrant with the metadatas in reverse order
format_for_qdrant_reversed(cs) ==
  [texts |-> [i \in 1..Len(cs) |-> cs[i].text],
   metadatas |-> [i \in 1..Len(cs) |-> cs[Len(cs) + 1 - i].metadata]]

\* TextChunker.format_for_qdrant
format_for_qdrant(cs) ==
  [texts |-> [i \in 1..Len(cs) |-> cs[i].text],
   metadatas |-> [i \in 1..Len(cs) |-> cs[i].metadata]]

----------------------------------------------------------------------------
\* No response of the query endpoint yet
NoResponse == [has_result |-> FALSE, type |-> "dict", keys |-> {}, points |-> << >>]

\* The locals of an operation that has not started
NoLoc ==
  [op |-> "none", data_dir |-> "none", force_reindex |-> FALSE,
   texts |-> << >>, metadatas |-> << >>, embeddings |-> << >>,
   offset |-> 0, points |-> << >>, i |-> 0,
   documents |-> << >>, chunks |-> << >>, count |-> 0, rv |-> "None",
   query |-> << >>, limit |-> 0, response |-> NoResponse,
   context |-> << >>, given |-> FALSE, history |-> << >>, messages |-> << >>,
   has_client |-> FALSE, logged_in |-> FALSE,
   file |-> File("none", "", FALSE, << >>, FALSE),
   sent |-> << >>, before |-> [exists |-> FALSE, config |-> NoConfig, points |-> NoPoints]]

\* The store machine at rest, for the runs of the chunker machine
StoreOff ==
  /\ exists = FALSE
  /\ config = NoConfig
  /\ points = NoPoints
  /\ assigned = NoPoints
  /\ use_rest = [c \in Clients |-> TRUE]
  /\ pc = [c \in Clients |-> "none"]
  /\ stack = [c \in Clients |-> << >>]
  /\ loc = [c \in Clients |-> NoLoc]
  /\ hist = [c \in Clients |-> << >>]
  /\ budget = [c \in Clients |-> 0]
  /\ nfaults = 0

----------------------------------------------------------------------------
(* The chunker machine. *)
LoopState == [chunks |-> chunks, current_chunk |-> current_chunk,
              current_tokens |-> current_tokens]

SetLoop(st) ==
  /\ chunks' = st.chunks
  /\ current_chunk' = st.current_chunk
  /\ current_tokens' = st.current_tokens

\* The input texts: at most MaxWords words, the i-th with id i, each ending
\* in punctuation or not, and a separator between neighbours; and the empty
\* and the whitespace-only string.
RECURSIVE Interleave(_, _)
Interleave(ws, seps) ==
  IF Len(ws) <= 1 THEN ws
  ELSE <<Head(ws), Head(seps)>> \o Interleave(Tail(ws), Tail(seps))

InputTexts ==
  {<< >>, <<SP>>, <<BL, SP>>} \cup
  UNION { { Interleave([i \in 1..n |-> Word(i, p[i])], s) :
              p \in [1..n -> BOOLEAN], s \in [1..(n - 1) -> {SP, BL}] }
          : n \in 1..MaxWords }

InitChunk ==
  /\ text \in InputTexts
  /\ chunk_size \in 1..MaxChunkSize
  /\ chunk_overlap \in 0..(chunk_size - 1)
  /\ paragraphs = << >>
  /\ sentences = << >>
  /\ chunks = << >>
  /\ current_chunk = << >>
  /\ current_tokens = 0
  /\ cpc = "call"
  /\ StoreOff

\* lines 38-47
ChunkCall ==
  /\ cpc = "call"
  /\ IF text = << >> \/ strip(text) = << >>
     THEN cpc' = "done" /\ paragraphs' = << >>
     ELSE cpc' = "loop" /\ paragraphs' = Paragraphs(text)
  /\ UNCHANGED <<text, chunk_size, chunk_overlap, sentences, chunks,
                 current_chunk, current_tokens>>
  /\ UNCHANGED storeVars

\* lines 49-54 and 70-79: the next paragraph
ChunkParagraph ==
  /\ cpc = "loop"
  /\ paragraphs # << >>
  /\ paragraphs' = Tail(paragraphs)
  /\ IF Oversized(Head(paragraphs), chunk_size)
     THEN /\ sentences' = Sentences(Head(paragraphs))
          /\ cpc' = "sentences"
          /\ UNCHANGED <<chunks, current_chunk, current_tokens>>
     ELSE /\ SetLoop(RegularIter(LoopState, Head(paragraphs), chunk_size, chunk_overlap))
          /\ UNCHANGED <<sentences, cpc>>
  /\ UNCHANGED <<text, chunk_size, chunk_overlap>>
  /\ UNCHANGED storeVars

\* lines 55-68: the next sentence of the oversized paragraph
ChunkSentence ==
  /\ cpc = "sentences"
  /\ sentences # << >>
  /\ SetLoop(SentenceIter(LoopState, Head(sentences), chunk_size, chunk_overlap))
  /\ sentences' = Tail(sentences)
  /\ cpc' = IF Tail(sentences) = << >> THEN "loop" ELSE "sentences"
  /\ UNCHANGED <<text, chunk_size, chunk_overlap, paragraphs>>
  /\ UNCHANGED storeVars

\* lines 81-85
ChunkReturn ==
  /\ cpc = "loop"
  /\ paragraphs = << >>
  /\ chunks' = FinalChunks(LoopState)
  /\ cpc' = "done"
  /\ UNCHANGED <<text, chunk_size, chunk_overlap, paragraphs, sentences,
                 current_chunk, current_tokens>>
  /\ UNCHANGED storeVars

NextChunk == ChunkCall \/ ChunkParagraph \/ ChunkSentence \/ ChunkReturn

SpecChunk == InitChunk /\ [][NextChunk]_vars

----------------------------------------------------------------------------
(***************************************************************************)
(* The store machine.  A client runs one operation at a time; pc[c] names  *)
(* the request or statement it is about to run and stack[c] the labels to  *)
(* return to.  A request either gets through or fails on the network       *)
(* (raise_for_status / a connection error): a failed request changes       *)
(* nothing on the server.                                                  *)
(***************************************************************************)
Snapshot == [exists |-> exists, config |-> config, points |-> points]

\* A request of the operation in progress, appended to its record
Req(l, kind, ok) ==
  [l EXCEPT !.sent = Append(@, [kind |-> kind, ok |-> ok, first |-> 0, n |-> 0])]

ReqUpsert(l, first, n, ok) ==
  [l EXCEPT !.sent = Append(@, [kind |-> "PUT points", ok |-> ok, first |-> first, n |-> n])]

\* What hist keeps of a finished operation
OpRecord(l, status, value) ==
  [op |-> l.op, data_dir |-> l.data_dir, force_reindex |-> l.force_reindex,
   texts |-> l.texts, metadatas |-> l.metadatas, offset |-> l.offset, i |-> l.i,
   npoints |-> Len(l.points), sent |-> l.sent, before |-> l.before,
   query |-> l.query, limit |-> l.limit, response |-> l.response,
   context |-> l.context, given |-> l.given, history |-> l.history,
   messages |-> l.messages, has_client |-> l.has_client, logged_in |-> l.logged_in,
   file |-> l.file, rv |-> l.rv, status |-> status, value |-> value]

Last2(h) == IF Len(h) > 2 THEN Tail(h) ELSE h

\* The next statement of the same function
Goto(c, l, label) ==
  /\ pc' = [pc EXCEPT ![c] = label]
  /\ loc' = [loc EXCEPT ![c] = l]
  /\ UNCHANGED <<stack, hist>>

\* A call: run callee, then go on at ret
Call(c, l, callee, ret) ==
  /\ pc' = [pc EXCEPT ![c] = callee]
  /\ stack' = [stack EXCEPT ![c] = <<ret>> \o @]
  /\ loc' = [loc EXCEPT ![c] = l]
  /\ UNCHANGED hist

\* The top-level operation ends: returned, or raised to its caller
Complete(c, l, status, value) ==
  /\ pc' = [pc EXCEPT ![c] = IF l.op = "__init__" /\ status = "raised"
                             THEN "none" ELSE "idle"]
  /\ stack' = [stack EXCEPT ![c] = << >>]
  /\ loc' = [loc EXCEPT ![c] = NoLoc]
  /\ hist' = [hist EXCEPT ![c] = Last2(Append(@, OpRecord(l, status, value)))]

\* return value
Return(c, l, value) ==
  IF stack[c] = << >> THEN Complete(c, l, "returned", value)
  ELSE /\ pc' = [pc EXCEPT ![c] = Head(stack[c])]
       /\ stack' = [stack EXCEPT ![c] = Tail(@)]
       /\ loc' = [loc EXCEPT ![c] = [l EXCEPT !.rv = value]]
       /\ UNCHANGED hist

\* An exception: get_qdrant_store catches it (except Exception: st.error,
\* return None), no other caller in the machine does
Raise(c, l, what) ==
  IF l.op = "get_qdrant_store" THEN Complete(c, l, "returned", "None")
  ELSE Complete(c, l, "raised", what)

\* The network lets the request through, or fails it within the budget
NetOk(ok) == ok \/ nfaults < MaxFaults
Faults(ok) == nfaults' = IF ok THEN nfaults ELSE nfaults + 1

----------------------------------------------------------------------------
(* _ensure_collection: qdrant_rest.py 48-65, vector_store.py 60-79 *)

\* except Exception: the REST client prints and goes on, the SDK client re-raises
EnsureFailed(c, l) ==
  IF use_rest[c] THEN Return(c, l, "None") ELSE Raise(c, l, "StoreError")

\* The answer to GET collections: the names of the collections
CollectionNames == IF exists THEN {QDRANT_COLLECTION_NAME} ELSE {}

\* if True: the test on the names left out
NeedsCreateAlways(names, name) == TRUE

\* if self.collection_name not in names
NeedsCreate(names, name) == name \notin names

\* GET collections, and the test on the names
EnsureGet(c) ==
  /\ pc[c] = "_ensure_collection"
  /\ \E ok \in BOOLEAN :
       /\ NetOk(ok)
       /\ Faults(ok)
       /\ LET l == Req(loc[c], "GET collections", ok) IN
          IF ~ok THEN EnsureFailed(c, l)
          ELSE IF NeedsCreate(CollectionNames, QDRANT_COLLECTION_NAME)
               THEN Goto(c, l, "ensure_put")
               ELSE Return(c, l, "None")
  /\ UNCHANGED <<chunkVars, serverVars, use_rest, budget>>

\* PUT collections/{name}: the server refuses to create a collection that exists
EnsurePut(c) ==
  /\ pc[c] = "ensure_put"
  /\ \E net \in BOOLEAN :
       /\ NetOk(net)
       /\ Faults(net)
       /\ LET ok == net /\ ~exists
              l == Req(loc[c], "PUT collection", ok)
          IN /\ IF ok
                THEN /\ exists' = TRUE
                     /\ config' = [size |-> _get_embedding_dim(EMBEDDING_MODEL),
                                   distance |-> "Cosine"]
                     /\ points' = NoPoints
                ELSE UNCHANGED <<exists, config, points>>
             /\ IF ok THEN Return(c, l, "None") ELSE EnsureFailed(c, l)
  /\ UNCHANGED <<chunkVars, assigned, use_rest, budget>>

----------------------------------------------------------------------------
(* add_documents: qdrant_rest.py 99-130, vector_store.py 106-148 *)

\* if False: the test on the texts left out
NotTextsNever(texts) == FALSE

\* if not texts
NotTexts(texts) == texts = << >>

\* lines 101-105: the empty-input return, else the embedding request
AddEmbed(c) ==
  /\ pc[c] = "add_documents"
  /\ IF NotTexts(loc[c].texts)
     THEN /\ Return(c, loc[c], 0)
          /\ UNCHANGED nfaults
     ELSE \E ok \in BOOLEAN :
            /\ NetOk(ok)
            /\ Faults(ok)
            /\ LET l == Req(loc[c], "POST embeddings", ok) IN
               IF ok
               THEN Goto(c, [l EXCEPT !.embeddings = _create_embeddings(l.texts)],
                         "add_count")
               ELSE Raise(c, l, "EmbeddingServiceError")
  /\ UNCHANGED <<chunkVars, serverVars, use_rest, budget>>

\* lines 107-121: GET collections/{name} inside try / bare except, then the points
AddCount(c) ==
  /\ pc[c] = "add_count"
  /\ \E net \in BOOLEAN :
       /\ NetOk(net)
       /\ Faults(net)
       /\ LET ok == net /\ exists
              offset == IF ok THEN Count ELSE 0
              l == Req(loc[c], "GET collection", ok)
          IN Goto(c, [l EXCEPT !.offset = offset,
                               !.points = BuildPoints(l.texts, l.embeddings,
                                                      l.metadatas, offset),
                               !.i = 0],
                  "add_upsert")
  /\ UNCHANGED <<chunkVars, serverVars, use_rest, budget>>

\* The REST client uploads batch_size points per request, the SDK client all at once
BatchSize(c) == IF use_rest[c] THEN batch_size ELSE Len(loc[c].points)

\* lines 123-130: PUT collections/{name}/points for the batch at i
AddUpsert(c) ==
  /\ pc[c] = "add_upsert"
  /\ \E net \in BOOLEAN :
       /\ NetOk(net)
       /\ Faults(net)
       /\ LET ok == net /\ exists
              batch == Batch(loc[c].points, loc[c].i, BatchSize(c))
              l == ReqUpsert(loc[c], loc[c].i, Len(batch), ok)
              next == loc[c].i + BatchSize(c)
          IN /\ IF ok
                THEN /\ points' = Upsert(points, batch)
                     /\ assigned' = Remember(assigned, Upsert(points, batch))
                ELSE UNCHANGED <<points, assigned>>
             /\ IF ~ok THEN Raise(c, l, "StoreError")
                ELSE IF next < Len(l.points) THEN Goto(c, [l EXCEPT !.i = next], "add_upsert")
                ELSE Return(c, l, Len(l.points))
  /\ UNCHANGED <<chunkVars, exists, config, use_rest, budget>>

----------------------------------------------------------------------------
(* get_collection_info: qdrant_rest.py 157-165, vector_store.py 199-206 *)
InfoGet(c) ==
  /\ pc[c] = "get_collection_info"
  /\ \E net \in BOOLEAN :
       /\ NetOk(net)
       /\ Faults(net)
       /\ LET ok == net /\ exists
              l == Req(loc[c], "GET collection", ok)
          IN IF ok
             THEN Return(c, l, [name |-> QDRANT_COLLECTION_NAME, points_count |-> Count,
                                vector_size |-> config.size])
             ELSE Raise(c, l, "StoreError")
  /\ UNCHANGED <<chunkVars, serverVars, use_rest, budget>>

----------------------------------------------------------------------------
(* clear_collection: qdrant_rest.py 167-174, vector_store.py 208-212 *)

\* DELETE collections/{name}.  The server answers a delete of an absent
\* collection with success or with "not found", depending on its version.
\* The REST client passes over any failure, the SDK client raises it.
ClearDelete(c) ==
  /\ pc[c] = "clear_collection"
  /\ \E net \in BOOLEAN, lenient \in BOOLEAN :
       /\ NetOk(net)
       /\ Faults(net)
       /\ exists => lenient
       /\ LET ok == net /\ (exists \/ lenient)
              l == Req(loc[c], "DELETE collection", ok)
          IN /\ IF ok
                THEN /\ exists' = FALSE
                     /\ config' = NoConfig
                     /\ points' = NoPoints
                ELSE UNCHANGED <<exists, config, points>>
             /\ IF ok \/ use_rest[c]
                THEN Call(c, l, "_ensure_collection", "clear_ret")
                ELSE Raise(c, l, "StoreError")
  /\ UNCHANGED <<chunkVars, assigned, use_rest, budget>>

\* line 174: _ensure_collection returned
ClearReturn(c) ==
  /\ pc[c] = "clear_ret"
  /\ Return(c, loc[c], "None")
  /\ UNCHANGED <<chunkVars, serverVars, use_rest, budget, nfaults>>

----------------------------------------------------------------------------
(* search: qdrant_rest.py 132-155 *)

\* The hits the server may answer a query of the given limit with: the
\* nearest stored points, at most limit of them, in the order of its ranking
\* (any ranking), each with its id, score and payload
RankedIds(limit) ==
  LET n == Min(limit, Count) IN
  {ids \in [1..n -> DOMAIN points] : \A a, b \in 1..n : a # b => ids[a] # ids[b]}

ScoreAt(rank) == 10 - rank

HitsOf(ids) ==
  [k \in DOMAIN ids |-> [id |-> ids[k], score |-> ScoreAt(k), payload |-> points[ids[k]].payload]]

\* The JSON bodies a query may be answered with: {"result": {"points": hits}},
\* a body without "result", {"result": {}}, {"result": hits} (a list), and
\* {"result": {"status": ...}}
Responses(hits) ==
  { [has_result |-> TRUE, type |-> "dict", keys |-> {"points"}, points |-> hits],
    [has_result |-> FALSE, type |-> "dict", keys |-> {}, points |-> << >>],
    [has_result |-> TRUE, type |-> "dict", keys |-> {}, points |-> << >>],
    [has_result |-> TRUE, type |-> "list", keys |-> {}, points |-> hits],
    [has_result |-> TRUE, type |-> "dict", keys |-> {"status"}, points |-> << >>] }

\* line 144: result.get("result", {}).get("points", result.get("result", []))
\* and the loop over it; ok = FALSE stands for the AttributeError of .get on
\* a list, or on a key of the dict the loop runs over
points_data(r) ==
  IF r.has_result /\ r.type # "dict" THEN [ok |-> FALSE, points |-> << >>]
  ELSE IF "points" \in r.keys THEN [ok |-> TRUE, points |-> r.points]
  ELSE IF r.has_result /\ r.keys # {} THEN [ok |-> FALSE, points |-> << >>]
  ELSE [ok |-> TRUE, points |-> << >>]

\* {k: v for k, v in payload.items() if k != "text"}
WithoutText(payload) == [k \in DOMAIN payload \ {"text"} |-> payload[k]]

\* lines 147-153: one hit as a search result
SearchResult(point) ==
  [text |-> IF "text" \in DOMAIN point.payload THEN point.payload.text ELSE << >>,
   metadata |-> WithoutText(point.payload),
   score |-> point.score]

\* lines 142-155
SearchResults(ps) == [k \in DOMAIN ps |-> SearchResult(ps[k])]

\* line 134: the embedding of the query
SearchEmbed(c) ==
  /\ pc[c] = "search"
  /\ \E ok \in BOOLEAN :
       /\ NetOk(ok)
       /\ Faults(ok)
       /\ LET l == Req(loc[c], "POST embeddings", ok) IN
          IF ok
          THEN Goto(c, [l EXCEPT !.embeddings = _create_embeddings(<<l.query>>)],
                    "search_query")
          ELSE Raise(c, l, "EmbeddingServiceError")
  /\ UNCHANGED <<chunkVars, serverVars, use_rest, budget>>

\* lines 136-155: POST collections/{name}/points/query, then the results
SearchQuery(c) ==
  /\ pc[c] = "search_query"
  /\ \E net \in BOOLEAN :
       /\ NetOk(net)
       /\ Faults(net)
       /\ LET ok == net /\ exists
              l == Req(loc[c], "POST query", ok)
          IN IF ~ok THEN Raise(c, l, "StoreError")
             ELSE \E ids \in RankedIds(l.limit) :
                    \E r \in Responses(HitsOf(ids)) :
                      IF points_data(r).ok
                      THEN Return(c, [l EXCEPT !.response = r],
                                  SearchResults(points_data(r).points))
                      ELSE Raise(c, [l EXCEPT !.response = r], "AttributeError")
  /\ UNCHANGED <<chunkVars, serverVars, use_rest, budget>>

----------------------------------------------------------------------------
(***************************************************************************)
(* The answer assemblers: RAGEngine (rag_engine.py 46-155) and the UI      *)
(* handlers handle_rag (app.py 221-252) and process_query_and_respond      *)
(* (app_simple.py 349-430).  A text is a sequence of tokens, a token       *)
(* counting as one character.  "\n" is the whitespace token SP and "\n\n"  *)
(* the blank-line token BL.                                                *)
(***************************************************************************)
\* The characters of a label: "[Document i - " is the token LabelOpen(i),
\* "]" the token RB, and a name is the sequence of its pieces around each "]"
\* it contains
LabelOpen(i) == [label |-> i]
RB == [close |-> TRUE]
Name(s) == [name |-> s]
Chars(source) ==
  IF source = "a].txt" THEN <<Name("a"), RB, Name(".txt")>> ELSE <<Name(source)>>

\* f"[Document {i} - {source}]"
Label(i, source) == <<LabelOpen(i)>> \o Chars(source) \o <<RB>>
IsLabel(t) == "label" \in DOMAIN t

\* "Aucun document pertinent trouvé."
NoDocumentFound ==
  <<Word(1001, FALSE), SP, Word(1002, FALSE), SP, Word(1003, FALSE), SP, Word(1004, TRUE)>>

\* "Service indisponible." and "Connectez OpenAI."
ServiceUnavailable == <<Word(1011, FALSE), SP, Word(1012, TRUE)>>
ConnectOpenAI == <<Word(1021, FALSE), SP, Word(1022, TRUE)>>

\* The login reminder of process_query_and_respond
LoginFirst == <<Word(1031, TRUE)>>

\* response.choices[0].message.content: the text the completion service wrote
Completion(messages) == <<Word(2000, TRUE)>>

\* sep.join(parts)
RECURSIVE JoinWith(_, _)
JoinWith(parts, sep) ==
  IF parts = << >> THEN << >>
  ELSE IF Len(parts) = 1 THEN Head(parts)
  ELSE Head(parts) \o <<sep>> \o JoinWith(Tail(parts), sep)

\* r["text"][:400] in handle_rag, r["text"][:500] in process_query_and_respond
HandleBudget == 400
TextBudget == 500

\* s[:n], a token counting as one character
Truncate(s, n) == SubSeq(s, 1, Min(n, Len(s)))

\* metadata.get(key, default)
MetaGet(metadata, key, default) ==
  IF key \in DOMAIN metadata THEN metadata[key] ELSE default

\* retrieve_context without the test "if not results"
retrieve_context_unguarded(results) ==
  JoinWith([i \in DOMAIN results |->
              Label(i, MetaGet(results[i].metadata, "source", "Document inconnu"))
              \o <<SP>> \o results[i].text],
           BL)

\* RAGEngine.retrieve_context, from the results of search on
retrieve_context(results) ==
  IF results = << >> THEN NoDocumentFound
  ELSE JoinWith([i \in DOMAIN results |->
                   Label(i, MetaGet(results[i].metadata, "source", "Document inconnu"))
                   \o <<SP>> \o results[i].text],
                BL)

\* re.findall(r'\[Document \d+ - ([^\]]+)\]', context) from position k on: at
\* an opening "[Document i - ", the characters up to the next "]" if there is
\* at least one, and the search goes on after that "]"
RECURSIVE findall(_, _)
findall(context, k) ==
  IF k > Len(context) THEN {}
  ELSE LET closes == {j \in (k + 1)..Len(context) : context[j] = RB}
           j == CHOOSE m \in closes : \A n \in closes : m <= n
       IN IF IsLabel(context[k]) /\ closes # {} /\ j > k + 1
          THEN {SubSeq(context, k + 1, j - 1)} \cup findall(context, j + 1)
          ELSE findall(context, k + 1)

\* RAGEngine._extract_sources: list(set(matches))
_extract_sources(context) == findall(context, 1)

\* {"role": role, "content": content}
Message(role, content) == [role |-> role, content |-> content]

SystemPrompt == <<Word(3000, TRUE)>>

\* f"CONTEXTE:\n{context}\n\nQUESTION: {question}"
UserPrompt(context, question) ==
  <<Word(3001, FALSE), SP>> \o context \o <<BL, Word(3002, FALSE), SP>> \o question

\* RAGEngine.answer, lines 83-84: retrieve the context unless it is given
AnswerRetrieve(c) ==
  /\ pc[c] = "answer"
  /\ IF loc[c].given
     THEN Goto(c, loc[c], "answer_llm")
     ELSE Call(c, [loc[c] EXCEPT !.limit = 5], "search", "answer_ctx")
  /\ UNCHANGED <<chunkVars, serverVars, use_rest, budget, nfaults>>

\* RAGEngine.retrieve_context, lines 59-69, back in answer
AnswerContext(c) ==
  /\ pc[c] = "answer_ctx"
  /\ Goto(c, [loc[c] EXCEPT !.context = retrieve_context(loc[c].rv)], "answer_llm")
  /\ UNCHANGED <<chunkVars, serverVars, use_rest, budget, nfaults>>

\* RAGEngine.answer, lines 86-106: the completion request is not guarded
AnswerComplete(c) ==
  /\ pc[c] = "answer_llm"
  /\ \E ok \in BOOLEAN :
       /\ NetOk(ok)
       /\ Faults(ok)
       /\ LET messages == <<Message("system", SystemPrompt),
                            Message("user", UserPrompt(loc[c].context, loc[c].query))>>
              l == [Req(loc[c], "POST completions", ok) EXCEPT !.messages = messages]
              sources == _extract_sources(l.context)
          IN IF ok
             THEN Return(c, l, [answer |-> Completion(messages), sources |-> sources,
                                context_used |-> sources # {}])
             ELSE Raise(c, l, "CompletionServiceError")
  /\ UNCHANGED <<chunkVars, serverVars, use_rest, budget>>

\* RAGEngine.chat, line 120
ChatRetrieve(c) ==
  /\ pc[c] = "chat"
  /\ Call(c, [loc[c] EXCEPT !.limit = 5], "search", "chat_llm")
  /\ UNCHANGED <<chunkVars, serverVars, use_rest, budget, nfaults>>

\* RAGEngine.chat, lines 120-148: the completion request is not guarded
ChatComplete(c) ==
  /\ pc[c] = "chat_llm"
  /\ \E ok \in BOOLEAN :
       /\ NetOk(ok)
       /\ Faults(ok)
       /\ LET context == retrieve_context(loc[c].rv)
              messages == <<Message("system", SystemPrompt)>>
                          \o (IF loc[c].history # << >>
                              THEN LastSlice(loc[c].history, 6) ELSE << >>)
                          \o <<Message("user", UserPrompt(context, loc[c].query))>>
              l == [Req(loc[c], "POST completions", ok) EXCEPT
                      !.context = context, !.messages = messages]
          IN IF ok
             THEN Return(c, l, [answer |-> Completion(messages),
                                sources |-> _extract_sources(context)])
             ELSE Raise(c, l, "CompletionServiceError")
  /\ UNCHANGED <<chunkVars, serverVars, use_rest, budget>>

\* handle_rag, lines 223-228: the store is there, search(query, limit=3)
HandleSearch(c) ==
  /\ pc[c] = "handle_rag"
  /\ Call(c, [loc[c] EXCEPT !.limit = 3], "search", "handle_llm")
  /\ UNCHANGED <<chunkVars, serverVars, use_rest, budget, nfaults>>

\* The answer of a UI handler: the completion, or the fallback when there is
\* no client or the request fails (try / bare except)
Respond(c, l, context, sources, messages, fallback) ==
  IF l.has_client
  THEN \E ok \in BOOLEAN :
         /\ NetOk(ok)
         /\ Faults(ok)
         /\ Return(c, [Req(l, "POST completions", ok) EXCEPT
                         !.context = context, !.messages = messages],
                   [answer |-> IF ok THEN Completion(messages) ELSE fallback,
                    sources |-> sources])
  ELSE /\ UNCHANGED nfaults
       /\ Return(c, [l EXCEPT !.context = context],
                 [answer |-> fallback, sources |-> sources])

\* handle_rag, lines 229-252
HandleRespond(c) ==
  /\ pc[c] = "handle_llm"
  /\ LET results == loc[c].rv
         context == JoinWith([i \in DOMAIN results |-> Truncate(results[i].text, HandleBudget)], SP)
         sources == {MetaGet(results[i].metadata, "source", "") : i \in DOMAIN results}
         messages == <<Message("system", SystemPrompt),
                       Message("user", UserPrompt(context, loc[c].query))>>
     IN Respond(c, loc[c], context, sources, messages, Truncate(context, 500))
  /\ UNCHANGED <<chunkVars, serverVars, use_rest, budget>>

\* process_query_and_respond, lines 352-402, for a query that names no
\* action and a store that is there
ProcessSearch(c) ==
  /\ pc[c] = "process_query_and_respond"
  /\ IF ~loc[c].logged_in
     THEN Return(c, loc[c], [answer |-> LoginFirst, sources |-> {}])
     ELSE Call(c, [loc[c] EXCEPT !.limit = 3], "search", "process_llm")
  /\ UNCHANGED <<chunkVars, serverVars, use_rest, budget, nfaults>>

\* process_query_and_respond, lines 403-430
ProcessRespond(c) ==
  /\ pc[c] = "process_llm"
  /\ LET results == loc[c].rv
         context == JoinWith([i \in DOMAIN results |-> Truncate(results[i].text, TextBudget)], BL)
         sources == {MetaGet(results[i].metadata, "source", "Doc") : i \in DOMAIN results}
         messages == <<Message("system", SystemPrompt),
                       Message("user", UserPrompt(context, loc[c].query))>>
         fallback == IF context # << >> THEN Truncate(context, 600)
                     ELSE IF loc[c].has_client THEN ServiceUnavailable
                     ELSE ConnectOpenAI
     IN Respond(c, loc[c], context, sources, messages, fallback)
  /\ UNCHANGED <<chunkVars, serverVars, use_rest, budget>>

----------------------------------------------------------------------------
(* IngestionPipeline.ingest_directory: ingest.py 21-73 *)

\* lines 32-40: the directory check, then force_reindex
IngestStart(c) ==
  /\ pc[c] = "ingest_directory"
  /\ IF ~DirExists(loc[c].data_dir) THEN Raise(c, loc[c], "FileNotFoundError")
     ELSE IF loc[c].force_reindex
          THEN Call(c, loc[c], "clear_collection", "ingest_extract")
          ELSE Goto(c, loc[c], "ingest_extract")
  /\ UNCHANGED <<chunkVars, serverVars, use_rest, budget, nfaults>>

\* if False: the test on the documents left out
NotDocumentsNever(documents) == FALSE

\* if not documents
NotDocuments(documents) == documents = << >>

\* lines 42-62: extract, the warning return, chunk, format, add_documents
IngestExtract(c) ==
  /\ pc[c] = "ingest_extract"
  /\ LET documents == extract_from_directory(loc[c].data_dir)
         cs == chunk_documents(documents, CHUNK_SIZE, CHUNK_OVERLAP)
         f == format_for_qdrant(cs)
     IN IF NotDocuments(documents)
        THEN Return(c, loc[c], [status |-> "warning", files_processed |-> 0])
        ELSE Call(c, [loc[c] EXCEPT !.documents = documents, !.chunks = cs,
                                    !.texts = f.texts, !.metadatas = f.metadatas],
                  "add_documents", "ingest_info")
  /\ UNCHANGED <<chunkVars, serverVars, use_rest, budget, nfaults>>

\* lines 62-65: count = add_documents(...), then get_collection_info
IngestInfo(c) ==
  /\ pc[c] = "ingest_info"
  /\ Call(c, [loc[c] EXCEPT !.count = loc[c].rv], "get_collection_info", "ingest_ret")
  /\ UNCHANGED <<chunkVars, serverVars, use_rest, budget, nfaults>>

\* lines 67-73: the summary
IngestReturn(c) ==
  /\ pc[c] = "ingest_ret"
  /\ Return(c, loc[c],
            [status |-> "success",
             files_processed |-> Len(loc[c].documents),
             chunks_created |-> Len(loc[c].chunks),
             chunks_added |-> loc[c].count,
             total_documents |-> loc[c].rv.points_count])
  /\ UNCHANGED <<chunkVars, serverVars, use_rest, budget, nfaults>>

----------------------------------------------------------------------------
(* IngestionPipeline.ingest_file: ingest.py 75-114 *)

\* lines 85-104: the existence check, extract_text, chunk_text, the chunk
\* dicts, format_for_qdrant([formatted_chunks]) and add_documents.  The list
\* handed to format_for_qdrant has one element, the list of the chunk dicts
\* ([list |-> ...]); chunk["text"] on an element that is no dict is a
\* TypeError
IngestFile(c) ==
  /\ pc[c] = "ingest_file"
  /\ LET f == loc[c].file
         r == extract_text(f)
         cs == chunk_text(r.text, CHUNK_SIZE, CHUNK_OVERLAP)
         formatted_chunks ==
           [i \in 1..Len(cs) |-> [text |-> cs[i].text, metadata |-> Meta(f.name, i - 1)]]
         arg == <<[list |-> formatted_chunks]>>
     IN IF ~DirExists(loc[c].data_dir) THEN Raise(c, loc[c], "FileNotFoundError")
        ELSE IF ~r.ok THEN Raise(c, loc[c], "ExtractionError")
        ELSE IF \E i \in DOMAIN arg : ~({"text", "metadata"} \subseteq DOMAIN arg[i])
             THEN Raise(c, [loc[c] EXCEPT !.chunks = cs], "TypeError")
             ELSE Call(c, [loc[c] EXCEPT !.chunks = cs,
                                         !.texts = format_for_qdrant(arg).texts,
                                         !.metadatas = format_for_qdrant(arg).metadatas],
                       "add_documents", "ingest_file_ret")
  /\ UNCHANGED <<chunkVars, serverVars, use_rest, budget, nfaults>>

\* lines 104-114: count = add_documents(...), then the summary.  No run
\* gets here, line 101 raising for every file
IngestFileReturn(c) ==
  /\ pc[c] = "ingest_file_ret"
  /\ Return(c, loc[c],
            [status |-> "success", file |-> loc[c].file.name,
             chunks_created |-> Len(loc[c].chunks), chunks_added |-> loc[c].rv])
  /\ UNCHANGED <<chunkVars, serverVars, use_rest, budget, nfaults>>

----------------------------------------------------------------------------
(* get_qdrant_store: app.py 37-49, app_simple.py 200-215 *)

\* store = QdrantRESTClient()
StoreNew(c) ==
  /\ pc[c] = "get_qdrant_store"
  /\ Call(c, loc[c], "_ensure_collection", "store_info")
  /\ UNCHANGED <<chunkVars, serverVars, use_rest, budget, nfaults>>

\* store.get_collection_info()
StoreInfo(c) ==
  /\ pc[c] = "store_info"
  /\ Call(c, loc[c], "get_collection_info", "store_test")
  /\ UNCHANGED <<chunkVars, serverVars, use_rest, budget, nfaults>>

\* if True: the test on the point count left out
NeedsIngestAlways(info) == TRUE

\* if info["points_count"] == 0
NeedsIngest(info) == info.points_count = 0

\* The test, then IngestionPipeline() (which constructs a store client of its
\* own) and ingest_directory("docs/Data")
StoreTest(c) ==
  /\ pc[c] = "store_test"
  /\ IF NeedsIngest(loc[c].rv)
     THEN /\ pc' = [pc EXCEPT ![c] = "_ensure_collection"]
          /\ stack' = [stack EXCEPT ![c] = <<"ingest_directory", "store_ret">> \o @]
          /\ UNCHANGED <<loc, hist>>
     ELSE Return(c, loc[c], "store")
  /\ UNCHANGED <<chunkVars, serverVars, use_rest, budget, nfaults>>

\* return store
StoreReturn(c) ==
  /\ pc[c] = "store_ret"
  /\ Return(c, loc[c], "store")
  /\ UNCHANGED <<chunkVars, serverVars, use_rest, budget, nfaults>>

----------------------------------------------------------------------------
(* The operations a caller starts on a client at rest. *)

\* QdrantRESTClient.__init__ / VectorStore.__init__: _ensure_collection()
New(c) ==
  /\ pc[c] = "new"
  /\ Call(c, [NoLoc EXCEPT !.op = "__init__", !.before = Snapshot],
          "_ensure_collection", "init_ret")
  /\ UNCHANGED <<chunkVars, serverVars, use_rest, budget, nfaults>>

InitReturn(c) ==
  /\ pc[c] = "init_ret"
  /\ Return(c, loc[c], "None")
  /\ UNCHANGED <<chunkVars, serverVars, use_rest, budget, nfaults>>

Start(c, l) ==
  /\ pc[c] = "idle"
  /\ budget[c] > 0
  /\ budget' = [budget EXCEPT ![c] = @ - 1]
  /\ pc' = [pc EXCEPT ![c] = l.op]
  /\ loc' = [loc EXCEPT ![c] = [l EXCEPT !.before = Snapshot]]
  /\ UNCHANGED <<chunkVars, serverVars, use_rest, stack, hist, nfaults>>

\* The arguments of add_documents: no chunk, a few chunks
AddInputs ==
  { [texts |-> << >>, metadatas |-> << >>],
    [texts |-> <<OneWord(7)>>, metadatas |-> <<Meta("x.txt", 0)>>],
    [texts |-> <<OneWord(8), OneWord(7)>>,
     metadatas |-> <<Meta("y.txt", 0), Meta("y.txt", 1)>>] }

\* The arguments of an upload of several batches: one full batch, one point
\* more than a batch, one point more than two batches
BigInput(n) ==
  [texts |-> [i \in 1..n |-> OneWord(i)],
   metadatas |-> [i \in 1..n |-> Meta("big.txt", i - 1)]]

BigInputs == { BigInput(n) : n \in {batch_size, batch_size + 1, 2 * batch_size + 1} }

CallAddDocuments(c) ==
  \E in \in AddInputs :
    Start(c, [NoLoc EXCEPT !.op = "add_documents", !.texts = in.texts,
                           !.metadatas = in.metadatas])

CallUpload(c) ==
  \E in \in BigInputs :
    Start(c, [NoLoc EXCEPT !.op = "add_documents", !.texts = in.texts,
                           !.metadatas = in.metadatas])

CallClearCollection(c) == Start(c, [NoLoc EXCEPT !.op = "clear_collection"])

CallGetCollectionInfo(c) == Start(c, [NoLoc EXCEPT !.op = "get_collection_info"])

CallEnsureCollection(c) == Start(c, [NoLoc EXCEPT !.op = "_ensure_collection"])

\* The arguments of search
Queries == {OneWord(50)}
Limits == {1, 3}

CallSearch(c) ==
  \E q \in Queries, k \in Limits :
    Start(c, [NoLoc EXCEPT !.op = "search", !.query = q, !.limit = k])

\* A context handed to answer, and the conversations handed to chat
GivenContexts == {<<Word(60, FALSE)>>}
Histories ==
  {<< >>, [i \in 1..7 |-> Message(IF i % 2 = 1 THEN "user" ELSE "assistant",
                                  <<Word(70 + i, FALSE)>>)]}

CallAnswer(c) ==
  \E q \in Queries :
    \/ Start(c, [NoLoc EXCEPT !.op = "answer", !.query = q])
    \/ \E ctx \in GivenContexts :
         Start(c, [NoLoc EXCEPT !.op = "answer", !.query = q, !.given = TRUE,
                                !.context = ctx])

CallChat(c) ==
  \E q \in Queries, h \in Histories :
    Start(c, [NoLoc EXCEPT !.op = "chat", !.query = q, !.history = h])

CallHandleRag(c) ==
  \E q \in Queries, client \in BOOLEAN :
    Start(c, [NoLoc EXCEPT !.op = "handle_rag", !.query = q, !.has_client = client])

CallProcessQuery(c) ==
  \E q \in Queries, client \in BOOLEAN, logged \in BOOLEAN :
    Start(c, [NoLoc EXCEPT !.op = "process_query_and_respond", !.query = q,
                           !.has_client = client, !.logged_in = logged])

\* A chunk of one character more than the largest budget of a hit's text
LongText == [k \in 1..(TextBudget + 1) |-> Word(k, FALSE)]

\* The arguments of add_documents in the runs of search: chunks of the
\* pipeline, a chunk whose metadata has a key "text" of its own, a chunk of
\* a file whose name holds a "]", a chunk whose text quotes a label, and a
\* chunk longer than the budget of a hit's text
SearchAddInputs ==
  { [texts |-> <<OneWord(7)>>, metadatas |-> <<Meta("x.txt", 0)>>],
    [texts |-> <<OneWord(8), OneWord(7)>>,
     metadatas |-> <<Meta("y.txt", 0), Meta("y.txt", 1)>>],
    [texts |-> <<OneWord(9)>>,
     metadatas |-> <<[source |-> "z.txt", chunk_index |-> 0, text |-> OneWord(5)]>>],
    [texts |-> <<OneWord(6)>>, metadatas |-> <<Meta("a].txt", 0)>>],
    [texts |-> <<<<Word(4, FALSE), SP>> \o Label(7, "w.txt")>>,
     metadatas |-> <<Meta("q.txt", 0)>>],
    [texts |-> <<LongText>>, metadatas |-> <<Meta("long.txt", 0)>>] }

CallAddForSearch(c) ==
  \E in \in SearchAddInputs :
    Start(c, [NoLoc EXCEPT !.op = "add_documents", !.texts = in.texts,
                           !.metadatas = in.metadatas])

CallIngestDirectory(c) ==
  \E dir \in DataDirs, force \in BOOLEAN :
    Start(c, [NoLoc EXCEPT !.op = "ingest_directory", !.data_dir = dir,
                           !.force_reindex = force])

\* A start-up of the UI, whatever docs/Data holds
CallGetQdrantStore(c) ==
  \E dir \in DataDirs :
    Start(c, [NoLoc EXCEPT !.op = "get_qdrant_store", !.data_dir = dir])

\* ingest_file on a file of a directory, or on a path that does not exist
CallIngestFile(c) ==
  \E dir \in DataDirs :
    \/ /\ ~DirExists(dir)
       /\ Start(c, [NoLoc EXCEPT !.op = "ingest_file", !.data_dir = dir])
    \/ \E k \in DOMAIN DirFiles(dir) :
         Start(c, [NoLoc EXCEPT !.op = "ingest_file", !.data_dir = dir,
                                !.file = DirFiles(dir)[k]])

----------------------------------------------------------------------------
ChunkOff ==
  /\ text = << >>
  /\ chunk_size = CHUNK_SIZE
  /\ chunk_overlap = CHUNK_OVERLAP
  /\ paragraphs = << >>
  /\ sentences = << >>
  /\ chunks = << >>
  /\ current_chunk = << >>
  /\ current_tokens = 0
  /\ cpc = "off"

\* The server when the clients are constructed: no collection, or the
\* collection an earlier run created and filled, under either embedding model
InitServer ==
  \/ /\ exists = FALSE
     /\ config = NoConfig
     /\ points = NoPoints
     /\ assigned = NoPoints
  \/ \E size \in {1536, 3072} :
       /\ exists = TRUE
       /\ config = [size |-> size, distance |-> "Cosine"]
       /\ points = OldPoints(MaxInit)
       /\ assigned = OldPoints(MaxInit)

\* One client, about to be constructed
Init ==
  /\ ChunkOff
  /\ InitServer
  /\ use_rest \in [Clients -> BOOLEAN]
  /\ use_rest[2] = TRUE
  /\ pc = [c \in Clients |-> IF c = 1 THEN "new" ELSE "none"]
  /\ stack = [c \in Clients |-> << >>]
  /\ loc = [c \in Clients |-> NoLoc]
  /\ hist = [c \in Clients |-> << >>]
  /\ budget = [c \in Clients |-> IF c = 1 THEN MaxOps ELSE 0]
  /\ nfaults = 0

\* IngestionPipeline.__init__: the store of the pipeline is the REST client
InitPipeline == Init /\ use_rest[1] = TRUE

\* RAGEngine.__init__ and the UI: the store that is searched is the REST client
InitSearch == Init /\ use_rest[1] = TRUE

\* One client, about to be constructed, for one upload
InitUpload ==
  /\ ChunkOff
  /\ InitServer
  /\ use_rest \in [Clients -> BOOLEAN]
  /\ use_rest[2] = TRUE
  /\ pc = [c \in Clients |-> IF c = 1 THEN "new" ELSE "none"]
  /\ stack = [c \in Clients |-> << >>]
  /\ loc = [c \in Clients |-> NoLoc]
  /\ hist = [c \in Clients |-> << >>]
  /\ budget = [c \in Clients |-> IF c = 1 THEN 1 ELSE 0]
  /\ nfaults = 0

\* Two constructed clients, one operation each, on a network that does not fail
InitRace ==
  /\ ChunkOff
  /\ InitServer
  /\ use_rest \in [Clients -> BOOLEAN]
  /\ pc = [c \in Clients |-> "idle"]
  /\ stack = [c \in Clients |-> << >>]
  /\ loc = [c \in Clients |-> NoLoc]
  /\ hist = [c \in Clients |-> << >>]
  /\ budget = [c \in Clients |-> 1]
  /\ nfaults = MaxFaults

\* The requests and statements of the store client
ClientStep(c) ==
  \/ EnsureGet(c)
  \/ EnsurePut(c)
  \/ AddEmbed(c)
  \/ AddCount(c)
  \/ AddUpsert(c)
  \/ InfoGet(c)
  \/ ClearDelete(c)
  \/ ClearReturn(c)

\* The statements of the pipeline
PipelineStep(c) ==
  \/ IngestStart(c)
  \/ IngestExtract(c)
  \/ IngestInfo(c)
  \/ IngestReturn(c)

\* The callers of the store client
ClientCall(c) ==
  \/ CallAddDocuments(c)
  \/ CallClearCollection(c)
  \/ CallGetCollectionInfo(c)
  \/ CallEnsureCollection(c)

\* A program that constructs a store client and calls it
Next ==
  \E c \in Clients :
    New(c) \/ InitReturn(c) \/ ClientStep(c) \/ ClientCall(c)

\* A program that constructs a pipeline and ingests directories
NextPipeline ==
  \E c \in Clients :
    New(c) \/ InitReturn(c) \/ ClientStep(c) \/ PipelineStep(c) \/ CallIngestDirectory(c)

\* A program that constructs a store client and uploads several batches
NextUpload ==
  \E c \in Clients :
    \/ New(c) \/ InitReturn(c) \/ EnsureGet(c) \/ EnsurePut(c)
    \/ AddEmbed(c) \/ AddCount(c) \/ AddUpsert(c)
    \/ CallUpload(c)

\* A program that constructs a REST store client, fills and searches it
NextSearch ==
  \E c \in Clients :
    \/ New(c) \/ InitReturn(c) \/ EnsureGet(c) \/ EnsurePut(c)
    \/ AddEmbed(c) \/ AddCount(c) \/ AddUpsert(c)
    \/ ClearDelete(c) \/ ClearReturn(c)
    \/ SearchEmbed(c) \/ SearchQuery(c)
    \/ CallAddForSearch(c) \/ CallClearCollection(c) \/ CallSearch(c)

\* The statements of the answer assemblers
RagStep(c) ==
  \/ AnswerRetrieve(c) \/ AnswerContext(c) \/ AnswerComplete(c)
  \/ ChatRetrieve(c) \/ ChatComplete(c)
  \/ HandleSearch(c) \/ HandleRespond(c)
  \/ ProcessSearch(c) \/ ProcessRespond(c)

\* The callers of the answer assemblers
RagCall(c) ==
  \/ CallAnswer(c) \/ CallChat(c) \/ CallHandleRag(c) \/ CallProcessQuery(c)

\* A program that constructs a REST store client and answers questions from
\* it, filling and clearing the collection at times
NextRag ==
  \E c \in Clients :
    \/ New(c) \/ InitReturn(c) \/ EnsureGet(c) \/ EnsurePut(c)
    \/ AddEmbed(c) \/ AddCount(c) \/ AddUpsert(c)
    \/ ClearDelete(c) \/ ClearReturn(c)
    \/ SearchEmbed(c) \/ SearchQuery(c)
    \/ RagStep(c)
    \/ CallAddForSearch(c) \/ CallClearCollection(c) \/ RagCall(c)

\* A process that starts the UI up, at times more than once, and ingests
\* single files.  IngestFileReturn is no step of it: no run reaches it
NextApp ==
  \E c \in Clients :
    \/ New(c) \/ InitReturn(c) \/ EnsureGet(c) \/ EnsurePut(c)
    \/ AddEmbed(c) \/ AddCount(c) \/ AddUpsert(c) \/ InfoGet(c)
    \/ PipelineStep(c)
    \/ StoreNew(c) \/ StoreInfo(c) \/ StoreTest(c) \/ StoreReturn(c)
    \/ IngestFile(c)
    \/ CallGetQdrantStore(c) \/ CallIngestFile(c)

\* Two programs at once on one collection
NextRace == \E c \in Clients : ClientStep(c) \/ ClientCall(c)

Spec == Init /\ [][Next]_vars

SpecPipeline == InitPipeline /\ [][NextPipeline]_vars

SpecUpload == InitUpload /\ [][NextUpload]_vars

SpecRace == InitRace /\ [][NextRace]_vars

SpecSearch == InitSearch /\ [][NextSearch]_vars

SpecRag == InitSearch /\ [][NextRag]_vars

SpecApp == InitPipeline /\ [][NextApp]_vars

----------------------------------------------------------------------------
(***************************************************************************)
(* The chunker's claims, under SpecChunk.                                  *)
(***************************************************************************)
RECURSIVE IsSubsequence(_, _)
IsSubsequence(a, b) ==
  IF a = << >> THEN TRUE
  ELSE IF b = << >> THEN FALSE
  ELSE IF Head(a) = Head(b) THEN IsSubsequence(Tail(a), Tail(b))
  ELSE IsSubsequence(a, Tail(b))

\* The words of the chunks, chunk after chunk
RECURSIVE ChunkWords(_)
ChunkWords(cs) ==
  IF cs = << >> THEN << >> ELSE split(Head(cs).text) \o ChunkWords(Tail(cs))

\* C1: when chunk() has returned, every whitespace-delimited word of the
\* input, with its punctuation, is in some chunk, and the words are met in
\* the chunks in input order: the input's words are a subsequence of the
\* words of the chunks taken in order.
C1_NoContentLoss ==
  cpc = "done" => IsSubsequence(split(text), ChunkWords(chunks))

\* The pieces the chunker never divides: the paragraphs of the input and the
\* sentences of its oversized paragraphs
RECURSIVE Pieces(_, _)
Pieces(ps, size) ==
  IF ps = << >> THEN {}
  ELSE {Head(ps)}
       \cup (IF Oversized(Head(ps), size)
             THEN {Sentences(Head(ps))[k] : k \in DOMAIN Sentences(Head(ps))}
             ELSE {})
       \cup Pieces(Tail(ps), size)

\* C2: when chunk() has returned, every chunk has at most chunk_size
\* whitespace tokens, unless it consists of one sentence or paragraph that
\* alone exceeds chunk_size.
C2_ChunkWithinBudget ==
  cpc = "done" =>
    \A k \in DOMAIN chunks :
      \/ Len(split(chunks[k].text)) <= chunk_size
      \/ \E piece \in Pieces(Paragraphs(text), chunk_size) :
           /\ Len(split(piece)) > chunk_size
           /\ split(chunks[k].text) = split(piece)

\* A step of the loops that seals the buffer as a chunk
Seals ==
  /\ cpc \in {"loop", "sentences"}
  /\ cpc' # "done"
  /\ Len(chunks') = Len(chunks) + 1

\* The paragraph or sentence the step visits
Visited == IF cpc = "sentences" THEN Head(sentences) ELSE Head(paragraphs)

\* The last min(k, Len(ws)) words of ws
Tail_(ws, k) == SubSeq(ws, Len(ws) - Min(k, Len(ws)) + 1, Len(ws))

\* C3: whenever a step seals the buffer, the next buffer is the last
\* min(chunk_overlap, length of the sealed chunk) words of the sealed chunk
\* followed by the paragraph or sentence that triggered the seal, and
\* nothing else.
C3_OverlapSeed ==
  [][Seals =>
       split(current_chunk') =
         Tail_(split(chunks'[Len(chunks')].text), chunk_overlap) \o split(Visited)]_vars

----------------------------------------------------------------------------
(***************************************************************************)
(* The store's claims.  hist[c] keeps the last two finished operations of  *)
(* client c, each with the server as it was when the operation started     *)
(* (before) and the requests it sent (sent).                               *)
(***************************************************************************)
Idle(c) == pc[c] = "idle" /\ hist[c] # << >>
Last(c) == hist[c][Len(hist[c])]
Prev(c) == hist[c][Len(hist[c]) - 1]
AllOk(h) == \A k \in DOMAIN h.sent : h.sent[k].ok
Sent(h, kind) == \E k \in DOMAIN h.sent : h.sent[k].kind = kind
SentOk(h, kind) == \E k \in DOMAIN h.sent : h.sent[k].kind = kind /\ h.sent[k].ok
CountOf(snapshot) == Cardinality(DOMAIN snapshot.points)
Max(a, b) == IF a >= b THEN a ELSE b

\* The point add_documents is to store for its k-th text, k from 0
PointOf(h, k) ==
  [vector |-> Embed(h.texts[k + 1]),
   payload |-> [f \in DOMAIN h.metadatas[k + 1] \cup {"text"} |->
                  IF f = "text" THEN h.texts[k + 1] ELSE h.metadatas[k + 1][f]]]

\* add_documents of n > 0 texts returned, and its read of the count succeeded
AddedWithCount(c) ==
  /\ Idle(c)
  /\ Last(c).op = "add_documents"
  /\ Last(c).status = "returned"
  /\ Last(c).texts # << >>
  /\ SentOk(Last(c), "GET collection")

\* C4: when a single client's add_documents of n > 0 texts returns and its
\* read of the point count succeeded with c, the collection holds exactly n
\* more points, with the ids c .. c+n-1; the point c+i has the embedding of
\* texts[i] and the payload metadatas[i] plus "text" = texts[i]; the points
\* stored before are as they were; and the call returned n.
C4_AddAssignsSequentialIds ==
  AddedWithCount(1) =>
    LET h == Last(1)
        n == Len(h.texts)
        cnt == CountOf(h.before)
    IN /\ h.offset = cnt
       /\ h.value = n
       /\ DOMAIN points = DOMAIN h.before.points \cup cnt..(cnt + n - 1)
       /\ Count = cnt + n
       /\ \A i \in 0..(n - 1) : points[cnt + i] = PointOf(h, i)
       /\ \A id \in DOMAIN h.before.points : points[id] = h.before.points[id]

C4_Witness ==
  /\ AddedWithCount(1)
  /\ Len(Last(1).texts) = 2
  /\ Last(1).offset > 0
  /\ Count = Last(1).offset + 2

\* C5: over the calls of a single client whose requests all got through,
\* the point stored under an id is the first point that was ever stored
\* under that id: an id, once given to a point, is not given to another
\* point, also after clear_collection deleted the first.
C5_IdsNeverReassigned ==
  nfaults = 0 => \A id \in DOMAIN points : points[id] = assigned[id]

\* Both clients' add_documents of n1, n2 > 0 texts returned, and both read
\* the same point count
RaceLost ==
  /\ AddedWithCount(1)
  /\ AddedWithCount(2)
  /\ Last(1).offset = Last(2).offset

\* C6: when two clients run add_documents at once and both read the same
\* count c before either inserts, both insert at the ids from c on: each
\* call returns its full count, and the collection ends with the ids
\* 0 .. c + max(n1, n2) - 1, fewer points than c + n1 + n2.
C6_RaceOverwrites ==
  RaceLost =>
    LET n1 == Len(Last(1).texts)
        n2 == Len(Last(2).texts)
        cnt == Last(1).offset
    IN /\ Last(1).value = n1
       /\ Last(2).value = n2
       /\ DOMAIN points = 0..(cnt + Max(n1, n2) - 1)
       /\ Count < cnt + n1 + n2

C6_Witness ==
  /\ RaceLost
  /\ Last(1).offset > 0
  /\ Len(Last(1).texts) # Len(Last(2).texts)
  /\ Count < Last(1).offset + Len(Last(1).texts) + Len(Last(2).texts)

\* Two runs of ingest_directory in a row on one directory, without
\* force_reindex, both successful and with no failed request
IngestedTwice(c) ==
  /\ Idle(c)
  /\ Len(hist[c]) = 2
  /\ \A i \in 1..2 :
       /\ hist[c][i].op = "ingest_directory"
       /\ ~hist[c][i].force_reindex
       /\ hist[c][i].status = "returned"
       /\ hist[c][i].value.status = "success"
       /\ AllOk(hist[c][i])
  /\ Prev(c).data_dir = Last(c).data_dir

\* C7: two runs of ingest_directory on the same unchanged directory without
\* force_reindex add the same number of chunks each: each run reports
\* chunks_added = chunks_created, both report the same chunks_created, and
\* the second reports total_documents = the count before the first run plus
\* twice chunks_created.
C7_ReingestDuplicates ==
  IngestedTwice(1) =>
    /\ Prev(1).value.chunks_added = Prev(1).value.chunks_created
    /\ Last(1).value.chunks_added = Last(1).value.chunks_created
    /\ Last(1).value.chunks_created = Prev(1).value.chunks_created
    /\ Last(1).value.total_documents =
         CountOf(Prev(1).before) + 2 * Prev(1).value.chunks_created
    /\ Count = Last(1).value.total_documents

C7_Witness ==
  /\ IngestedTwice(1)
  /\ Last(1).value.chunks_created > 1
  /\ CountOf(Prev(1).before) > 0

\* add_documents of k > 1 batches raised at its batch j > 1
FailedAtLaterBatch(c) ==
  /\ Idle(c)
  /\ Last(c).op = "add_documents"
  /\ Last(c).status = "raised"
  /\ Last(c).npoints > batch_size
  /\ Last(c).i > 0
  /\ Sent(Last(c), "PUT points")

\* The upsert requests of an operation, in the order sent
Upserts(h) == SelectSeq(h.sent, LAMBDA r : r.kind = "PUT points")

\* C8: when add_documents uploads k > 1 batches and the request of batch
\* j > 1 fails, the error reaches the caller; the batches 1 .. j-1 were sent
\* whole, succeeded and their points stay in the collection; batch j is the
\* last request sent, so the batches after it are never sent and none of
\* the points from batch j on is stored.
C8_PartialUpload ==
  FailedAtLaterBatch(1) =>
    LET h == Last(1)
        us == Upserts(h)
        j == Len(us)
    IN /\ h.status = "raised"
       /\ j = (h.i \div batch_size) + 1
       /\ j > 1
       /\ h.sent[Len(h.sent)] = us[j]
       /\ ~us[j].ok
       /\ \A b \in 1..j :
            /\ us[b].first = (b - 1) * batch_size
            /\ us[b].n = Min(batch_size, h.npoints - us[b].first)
            /\ b < j => us[b].ok
       /\ \A k \in 0..(h.i - 1) :
            /\ h.offset + k \in DOMAIN points
            /\ points[h.offset + k] = PointOf(h, k)
       /\ \A k \in h.i..(h.npoints - 1) : h.offset + k \notin DOMAIN points

C8_Witness ==
  /\ FailedAtLaterBatch(1)
  /\ Last(1).npoints = 2 * batch_size + 1
  /\ Last(1).i = batch_size
  /\ Last(1).offset > 0
  /\ Count = Last(1).offset + batch_size

\* clear_collection returned, and get_collection_info was called next
ClearedThenInfo(c) ==
  /\ Idle(c)
  /\ Len(hist[c]) = 2
  /\ Prev(c).op = "clear_collection"
  /\ Prev(c).status = "returned"
  /\ Last(c).op = "get_collection_info"

\* C9: when clear_collection has returned normally, the get_collection_info
\* that follows it (nothing in between) reports points_count = 0 whenever
\* it reports.
C9_ClearLeavesEmpty ==
  (ClearedThenInfo(1) /\ Last(1).status = "returned") =>
    Last(1).value.points_count = 0

\* _ensure_collection finished as a call of its own
Ensured(c) == Idle(c) /\ Last(c).op = "_ensure_collection"

\* C10: _ensure_collection is idempotent.  On an absent collection, with
\* its requests getting through, it creates the collection with the
\* dimension of the embedding model and the Cosine distance.  On a present
\* collection it sends no create request, leaves the points and the vector
\* size as they were and does not raise.  A second call in a row leaves the
\* server as the first left it.  The REST client's never raises.
C10_EnsureIdempotent ==
  Ensured(1) =>
    LET h == Last(1) IN
    /\ use_rest[1] => h.status = "returned"
    /\ (~h.before.exists /\ AllOk(h)) =>
         /\ h.status = "returned"
         /\ Sent(h, "PUT collection")
         /\ exists
         /\ config = [size |-> 1536, distance |-> "Cosine"]
         /\ points = NoPoints
    /\ h.before.exists =>
         /\ ~Sent(h, "PUT collection")
         /\ Snapshot = h.before
         /\ AllOk(h) => h.status = "returned"
    /\ (Len(hist[1]) = 2 /\ Prev(1).op = "_ensure_collection"
          /\ AllOk(Prev(1)) /\ AllOk(h)) =>
         /\ Snapshot = h.before
         /\ ~Sent(h, "PUT collection")
         /\ h.status = "returned"

C10_Witness ==
  /\ Ensured(1)
  /\ Len(hist[1]) = 2
  /\ Prev(1).op = "_ensure_collection"
  /\ AllOk(Prev(1))
  /\ AllOk(Last(1))
  /\ Sent(Prev(1), "PUT collection")
  /\ exists

----------------------------------------------------------------------------
\* Both clients ran _ensure_collection at once on an absent collection, and
\* each listed the collections before the other created it: both sent the
\* create request, and one of the two was refused
EnsureRace ==
  /\ Idle(1)
  /\ Idle(2)
  /\ \A c \in Clients :
       /\ Last(c).op = "_ensure_collection"
       /\ ~Last(c).before.exists
       /\ Sent(Last(c), "PUT collection")
  /\ \E c \in Clients : ~AllOk(Last(c))

\* C11: when two clients run _ensure_collection at once on an absent
\* collection, both list before either creates and the second create is
\* answered "already exists", both calls return without raising and the
\* collection exists with the configured dimension.
C11_EnsureRaceTolerated ==
  EnsureRace =>
    /\ \A c \in Clients : Last(c).status = "returned"
    /\ exists
    /\ config = [size |-> 1536, distance |-> "Cosine"]

\* add_documents was called with no text
AddedNothing(c) ==
  /\ Idle(c)
  /\ Last(c).op = "add_documents"
  /\ Last(c).texts = << >>

\* C12: add_documents with an empty list of texts returns 0 and sends no
\* request at all (no embedding call, no read of the count, no upsert); the
\* collection is as it was.
C12_EmptyAddIsNoOp ==
  AddedNothing(1) =>
    /\ Last(1).status = "returned"
    /\ Last(1).value = 0
    /\ Last(1).sent = << >>
    /\ Snapshot = Last(1).before

C12_Witness ==
  /\ AddedNothing(1)
  /\ Last(1).before.exists
  /\ Count > 0
  /\ Last(1).value = 0

\* add_documents of n > 0 points returned
Uploaded(c) ==
  /\ Idle(c)
  /\ Last(c).op = "add_documents"
  /\ Last(c).status = "returned"
  /\ Last(c).npoints > 0

\* C13: add_documents uploads its n points in consecutive batches of at
\* most 100: it sends ceil(n / 100) upsert requests, the b-th starts at point
\* 100 * (b - 1) and holds 100 points, the last one the rest, so the batches
\* in order partition the list of points.
C13_BatchesOfHundred ==
  Uploaded(1) =>
    LET us == Upserts(Last(1))
        n == Last(1).npoints
    IN /\ Len(us) = (n + 99) \div 100
       /\ \A b \in DOMAIN us :
            /\ us[b].first = 100 * (b - 1)
            /\ us[b].n = Min(100, n - us[b].first)
            /\ us[b].n <= 100

----------------------------------------------------------------------------
(* The pipeline's claims, under SpecPipeline. *)
SupportedSuffixes == {".pdf", ".txt", ".md"}

\* The names of the supported files of a directory that can be read
Extractable(dir) ==
  {DirFiles(dir)[k].name : k \in {j \in DOMAIN DirFiles(dir) :
       /\ DirFiles(dir)[j].suffix \in SupportedSuffixes
       /\ ~DirFiles(dir)[j].corrupt}}

\* The supported files of a directory that cannot be read
Failing(dir) ==
  {DirFiles(dir)[k].name : k \in {j \in DOMAIN DirFiles(dir) :
       /\ DirFiles(dir)[j].suffix \in SupportedSuffixes
       /\ DirFiles(dir)[j].corrupt}}

Names(d) == {d[k].name : k \in DOMAIN d}

\* ingest_directory finished on a directory that exists
Ingested(c) ==
  /\ Idle(c)
  /\ Last(c).op = "ingest_directory"
  /\ DirExists(Last(c).data_dir)

\* C14: extract_from_directory returns a mapping with exactly the files
\* that could be read, one entry each, whatever files fail; and
\* ingest_directory on the directory, its store requests getting through,
\* returns with files_processed = the number of files that could be read.
C14_FailedFilesSkipped ==
  Ingested(1) =>
    /\ Names(extract_from_directory(Last(1).data_dir)) = Extractable(Last(1).data_dir)
    /\ Len(extract_from_directory(Last(1).data_dir)) =
         Cardinality(Extractable(Last(1).data_dir))
    /\ AllOk(Last(1)) =>
         /\ Last(1).status = "returned"
         /\ Last(1).value.files_processed = Cardinality(Extractable(Last(1).data_dir))

C14_Witness ==
  /\ Ingested(1)
  /\ AllOk(Last(1))
  /\ Failing(Last(1).data_dir) # {}
  /\ Last(1).value.status = "success"
  /\ Last(1).value.files_processed = 1

\* ingest_directory finished on a directory that exists and gives no document
IngestedNothing(c) ==
  /\ Ingested(c)
  /\ Extractable(Last(c).data_dir) = {}

\* C15: when an existing directory gives no document, ingest_directory
\* returns the result with status "warning" and files_processed = 0, does
\* not raise, and sends no embedding request and no upsert.
C15_EmptyDirectoryWarns ==
  IngestedNothing(1) =>
    /\ Last(1).status = "returned"
    /\ Last(1).value = [status |-> "warning", files_processed |-> 0]
    /\ ~Sent(Last(1), "POST embeddings")
    /\ ~Sent(Last(1), "PUT points")

C15_Witness ==
  /\ IngestedNothing(1)
  /\ Failing(Last(1).data_dir) # {}
  /\ Last(1).status = "returned"
  /\ Count > 0

\* A directory whose files are all supported, readable, of distinct names
\* and short enough for one chunk each
Clean(dir) ==
  /\ DirFiles(dir) # << >>
  /\ Cardinality(Extractable(dir)) = Len(DirFiles(dir))
  /\ \A k \in DOMAIN DirFiles(dir) :
       /\ split(DirFiles(dir)[k].content) # << >>
       /\ Len(split(DirFiles(dir)[k].content)) <= CHUNK_SIZE

\* ingest_directory succeeded on a clean directory, every request getting through
IngestedClean(c) ==
  /\ Ingested(c)
  /\ Clean(Last(c).data_dir)
  /\ Last(c).status = "returned"
  /\ AllOk(Last(c))

\* The new points of the operation that carry the given provenance
PointsOf(h, source, index) ==
  {id \in DOMAIN points :
     /\ id >= h.offset
     /\ points[id].payload.source = source
     /\ points[id].payload.chunk_index = index}

\* C16: ingest_directory processes each file once.  On a directory of
\* readable files of distinct names, each fitting in one chunk,
\* files_processed = chunks_created = chunks_added = the number of files, the
\* point count grows by that number, and each file has exactly one new point,
\* with its name and chunk_index 0 and the words of the file as text; a
\* top-level file, matched by both glob patterns, is still processed once.
C16_EachFileOnce ==
  IngestedClean(1) =>
    LET h == Last(1)
        files == DirFiles(h.data_dir)
        base == IF h.force_reindex THEN 0 ELSE CountOf(h.before)
    IN /\ h.value.status = "success"
       /\ h.value.files_processed = Len(files)
       /\ h.value.chunks_created = Len(files)
       /\ h.value.chunks_added = Len(files)
       /\ h.value.total_documents = base + Len(files)
       /\ Count = base + Len(files)
       /\ \A k \in DOMAIN files :
            /\ Cardinality(PointsOf(h, files[k].name, 0)) = 1
            /\ \A id \in PointsOf(h, files[k].name, 0) :
                 split(points[id].payload.text) = split(files[k].content)
            /\ PointsOf(h, files[k].name, 1) = {}

C16_Witness ==
  /\ IngestedClean(1)
  /\ Last(1).data_dir = "single"
  /\ ~Last(1).force_reindex
  /\ CountOf(Last(1).before) > 0
  /\ Last(1).value.files_processed = 1
  /\ Last(1).value.chunks_created = 1
  /\ Count = CountOf(Last(1).before) + 1

----------------------------------------------------------------------------
(* The claims of search, under SpecSearch. *)

\* search finished, its embedding request and its query got through
Searched(c) ==
  /\ Idle(c)
  /\ Last(c).op = "search"
  /\ SentOk(Last(c), "POST embeddings")
  /\ SentOk(Last(c), "POST query")

\* The response has a field result.points
HasPoints(r) == r.has_result /\ r.type = "dict" /\ "points" \in r.keys

\* C17: search on an existing collection without points returns the empty
\* list and does not raise when the embedding request and the query get
\* through; and so does a search whose response has no result.points.
C17_EmptySearch ==
  Searched(1) =>
    /\ (Last(1).before.exists /\ CountOf(Last(1).before) = 0) =>
         Last(1).status = "returned" /\ Last(1).value = << >>
    /\ ~HasPoints(Last(1).response) =>
         Last(1).status = "returned" /\ Last(1).value = << >>

\* add_documents stored its points with a successful count read, then
\* search returned the hits of a result.points response
AddedThenSearched(c) ==
  /\ Searched(c)
  /\ Len(hist[c]) = 2
  /\ Prev(c).op = "add_documents"
  /\ Prev(c).status = "returned"
  /\ SentOk(Prev(c), "GET collection")
  /\ Last(c).status = "returned"
  /\ HasPoints(Last(c).response)

\* C18: round trip from add_documents to search.  search returns one result
\* per hit, in the order of the hits and at most limit of them; the result
\* of a hit on the point that add_documents stored for texts[j] and
\* metadatas[j] has the text texts[j], the metadata metadatas[j] and the
\* score of the hit.
C18_RoundTrip ==
  AddedThenSearched(1) =>
    LET a == Prev(1)
        hits == Last(1).response.points
        res == Last(1).value
    IN /\ Len(res) = Len(hits)
       /\ Len(res) <= Last(1).limit
       /\ \A k \in DOMAIN hits :
            /\ res[k].score = hits[k].score
            /\ (hits[k].id >= a.offset /\ hits[k].id < a.offset + Len(a.texts)) =>
                 /\ res[k].text = a.texts[hits[k].id - a.offset + 1]
                 /\ res[k].metadata = a.metadatas[hits[k].id - a.offset + 1]

----------------------------------------------------------------------------
(* The claims of the answer assemblers, under SpecRag. *)
Assemblers == {"answer", "chat", "handle_rag", "process_query_and_respond"}

\* An answer assembler finished, and its completion request had failed
CompletionFailed(c) ==
  /\ Idle(c)
  /\ Last(c).op \in Assemblers
  /\ \E k \in DOMAIN Last(c).sent :
       Last(c).sent[k].kind = "POST completions" /\ ~Last(c).sent[k].ok

IsPrefix(a, b) == Len(a) <= Len(b) /\ a = SubSeq(b, 1, Len(a))

\* C19: when the completion service fails, the answer assembler (answer,
\* chat, handle_rag, process_query_and_respond) does not raise: it returns,
\* and its answer is the retrieved context, truncated.
C19_CompletionFallback ==
  CompletionFailed(1) =>
    /\ Last(1).status = "returned"
    /\ IsPrefix(Last(1).value.answer, Last(1).context)

\* answer retrieved its context, and search had returned no hit
AnsweredWithoutHits(c) ==
  /\ Idle(c)
  /\ Last(c).op = "answer"
  /\ ~Last(c).given
  /\ Sent(Last(c), "POST completions")
  /\ Last(c).rv = << >>

\* C20: when search returns no hit, retrieve_context returns the default
\* message and, the completion request getting through, answer returns with
\* an empty list of sources and context_used = FALSE.
C20_NoHitsDefaultMessage ==
  AnsweredWithoutHits(1) =>
    /\ Last(1).context = NoDocumentFound
    /\ SentOk(Last(1), "POST completions") =>
         /\ Last(1).status = "returned"
         /\ Last(1).value.sources = {}
         /\ Last(1).value.context_used = FALSE

C20_Witness ==
  /\ AnsweredWithoutHits(1)
  /\ Len(hist[1]) = 2
  /\ Prev(1).op = "clear_collection"
  /\ CountOf(Prev(1).before) > 0
  /\ Last(1).before.exists
  /\ CountOf(Last(1).before) = 0
  /\ HasPoints(Last(1).response)
  /\ Last(1).status = "returned"
  /\ Last(1).value.sources = {}


\* answer retrieved its context from at least one hit and returned
AnsweredFromHits(c) ==
  /\ Idle(c)
  /\ Last(c).op = "answer"
  /\ ~Last(c).given
  /\ Last(c).status = "returned"
  /\ Last(c).rv # << >>

\* The characters of the source names of the hits
SourceNames(results) ==
  {Chars(MetaGet(results[i].metadata, "source", "Document inconnu")) : i \in DOMAIN results}

\* C21: the sources RAGEngine.answer returns for a retrieved context are
\* exactly the distinct source names of the hits of search: each name of a
\* hit is among them and each of them is the name of a hit, also when a
\* chunk text quotes a label and when a name holds a "]".
C21_SourcesAreHitNames ==
  AnsweredFromHits(1) => Last(1).value.sources = SourceNames(Last(1).rv)


\* An assembler sent a context it built from at least one hit to the
\* completion service
SentContextOfHits(c) ==
  /\ Idle(c)
  /\ Last(c).op \in Assemblers
  /\ ~Last(c).given
  /\ Sent(Last(c), "POST completions")
  /\ Last(c).rv # << >>

IsInfix(a, b) == \E k \in 0..(Len(b) - Len(a)) : SubSeq(b, k + 1, k + Len(a)) = a

\* The block of the i-th hit: its label, a line break, its text within the budget
Block(i, result, n) ==
  Label(i, MetaGet(result.metadata, "source", "Document inconnu"))
  \o <<SP>> \o Truncate(result.text, n)

RECURSIVE BlocksLength(_, _, _)
BlocksLength(results, i, n) ==
  IF i > Len(results) THEN 0
  ELSE Len(Label(i, MetaGet(results[i].metadata, "source", "Document inconnu")))
       + 1 + n + 1 + BlocksLength(results, i + 1, n)

\* C22: the context sent to the completion service holds, for the i-th hit,
\* the block "[Document i - source]" followed by the hit's text truncated to
\* the budget, and its length is at most the sum over the hits of the budget
\* plus the length of the label (and of the separators).
C22_ContextBounded ==
  SentContextOfHits(1) =>
    /\ \A i \in DOMAIN Last(1).rv :
         IsInfix(Block(i, Last(1).rv[i], TextBudget), Last(1).context)
    /\ Len(Last(1).context) < BlocksLength(Last(1).rv, 1, TextBudget)


\* add_documents failed to read the point count of the collection
CountReadFailed(c) ==
  /\ Idle(c)
  /\ Last(c).op = "add_documents"
  /\ \E k \in DOMAIN Last(c).sent :
       Last(c).sent[k].kind = "GET collection" /\ ~Last(c).sent[k].ok

\* C23: an error of the store during add_documents reaches the caller: when
\* the read of the point count fails, add_documents raises, sends no upsert,
\* and every point the collection held is still stored unchanged.
C23_CountErrorPropagates ==
  CountReadFailed(1) =>
    /\ Last(1).status = "raised"
    /\ ~Sent(Last(1), "PUT points")
    /\ \A id \in DOMAIN Last(1).before.points :
         id \in DOMAIN points /\ points[id] = Last(1).before.points[id]


\* The documents handed to chunk_documents: the text the chunker was run
\* on under two names, and a whitespace-only document between them
Documents ==
  <<[name |-> "a.txt", text |-> text], [name |-> "e.txt", text |-> <<SP>>],
    [name |-> "b.txt", text |-> text]>>

ChunksOf(cs, name) == SelectSeq(cs, LAMBDA ch : ch.metadata.source = name)

\* C24: chunk_documents tags every chunk with its provenance: the chunks of
\* a document carry its name as source and the chunk_index 0, 1, ..., k-1 in
\* the order of its k chunks, and format_for_qdrant returns as many texts as
\* metadatas, texts[j] and metadatas[j] being those of the j-th chunk.
C24_ChunkProvenance ==
  cpc = "done" =>
    LET cs == chunk_documents(Documents, chunk_size, chunk_overlap)
        f == format_for_qdrant(cs)
    IN /\ \A d \in DOMAIN Documents :
            LET mine == ChunksOf(cs, Documents[d].name)
                own == IF strip(Documents[d].text) = << >> THEN << >> ELSE chunks
            IN /\ Len(mine) = Len(own)
               /\ \A i \in DOMAIN mine :
                    /\ mine[i].metadata.chunk_index = i - 1
                    /\ mine[i].text = own[i].text
       /\ Len(cs) = 2 * Len(chunks)
       /\ Len(f.texts) = Len(cs)
       /\ Len(f.metadatas) = Len(cs)
       /\ \A j \in DOMAIN cs :
            f.texts[j] = cs[j].text /\ f.metadatas[j] = cs[j].metadata

C24_Witness ==
  /\ cpc = "done"
  /\ Len(chunks) >= 2
  /\ LET cs == chunk_documents(Documents, chunk_size, chunk_overlap)
     IN /\ cs[2].metadata = Meta("a.txt", 1)
        /\ cs[Len(chunks) + 1].metadata = Meta("b.txt", 0)
        /\ format_for_qdrant(cs).metadatas[Len(cs)].source = "b.txt"


\* C25: for an empty or whitespace-only text the chunker returns no chunk,
\* and for every other text it returns at least one chunk, none of them
\* empty or blank; chunk_text returns the same chunks.
C25_ChunksNonEmpty ==
  cpc = "done" =>
    /\ chunk_text(text, chunk_size, chunk_overlap) = chunks
    /\ IF text = << >> \/ strip(text) = << >>
       THEN chunks = << >>
       ELSE /\ Len(chunks) >= 1
            /\ \A i \in DOMAIN chunks : strip(chunks[i].text) # << >>

C25_Witness ==
  /\ cpc = "done"
  /\ Len(text) > 1
  /\ Len(chunks) = 1
  /\ current_chunk = chunks[1].text
  /\ current_tokens <= chunk_size


\* A start-up of the UI finished
Started(c) == Idle(c) /\ Last(c).op = "get_qdrant_store"

\* The requests of an ingestion
Ingesting(h) == Sent(h, "POST embeddings") \/ Sent(h, "PUT points")

\* C26: get_qdrant_store runs the ingestion only when get_collection_info
\* reported no point: a start-up that ingested found the collection empty,
\* and a start-up against a collection that holds points sends no request of
\* an ingestion and leaves the collection as it was, also when it is
\* repeated.
C26_StartupSkipsReingest ==
  Started(1) =>
    /\ Ingesting(Last(1)) =>
         /\ CountOf(Last(1).before) = 0
         /\ \E k \in DOMAIN Last(1).sent :
              Last(1).sent[k].kind = "GET collection" /\ Last(1).sent[k].ok
    /\ CountOf(Last(1).before) > 0 =>
         /\ ~Ingesting(Last(1))
         /\ points = Last(1).before.points
         /\ exists

C26_Witness ==
  /\ Started(1)
  /\ Len(hist[1]) = 2
  /\ Prev(1).op = "get_qdrant_store"
  /\ CountOf(Prev(1).before) = 0
  /\ Ingesting(Prev(1))
  /\ CountOf(Last(1).before) > 0
  /\ Last(1).value = "store"
  /\ points = Last(1).before.points


\* ingest_file ran on an existing file of a supported kind that can be read,
\* and none of its requests failed
IngestedFile(c) ==
  /\ Idle(c)
  /\ Last(c).op = "ingest_file"
  /\ DirExists(Last(c).data_dir)
  /\ extract_text(Last(c).file).ok
  /\ AllOk(Last(c))

\* C27: ingest_file on an existing supported file, the embedding service
\* and the store reachable, returns the summary with status "success",
\* chunks_created = the number of chunks of the file and chunks_added =
\* chunks_created, after adding one point per chunk.
C27_IngestFileSucceeds ==
  IngestedFile(1) =>
    LET n == Len(chunk_text(extract_text(Last(1).file).text, CHUNK_SIZE, CHUNK_OVERLAP))
    IN /\ Last(1).status = "returned"
       /\ Last(1).value.status = "success"
       /\ Last(1).value.chunks_created = n
       /\ Last(1).value.chunks_added = n
       /\ Count = CountOf(Last(1).before) + n


\* One client, on a collection that was empty at first, ran successful
\* add_documents and clear_collection calls only
SingleWriter(c) ==
  /\ Idle(c)
  /\ CountOf(hist[c][1].before) = 0
  /\ \A k \in DOMAIN hist[c] :
       /\ hist[c][k].op \in {"__init__", "add_documents", "clear_collection"}
       /\ hist[c][k].status = "returned"

\* C28: after successful add_documents and clear_collection calls of one
\* client on a collection that was empty at first, the stored ids are
\* exactly 0..count-1, and an add_documents of n points leaves every point
\* stored before as it was and raises the point count by n.
C28_SingleWriterIds ==
  SingleWriter(1) =>
    /\ DOMAIN points = 0..(Count - 1)
    /\ Last(1).op = "add_documents" =>
         /\ Count = CountOf(Last(1).before) + Len(Last(1).texts)
         /\ \A id \in DOMAIN Last(1).before.points :
              points[id] = Last(1).before.points[id]


\* ingest_directory with force_reindex=True returned its summary
Reindexed(c) ==
  /\ Idle(c)
  /\ Last(c).op = "ingest_directory"
  /\ Last(c).force_reindex
  /\ Last(c).status = "returned"
  /\ Last(c).value.status = "success"

\* C29: a successful ingest_directory with force_reindex=True leaves the
\* collection holding exactly the chunks of the run, whatever it held
\* before: total_documents = chunks_added = chunks_created = n, the ids are
\* 0..n-1 and the point i is the i-th chunk; so a second such run on the
\* same directory leaves the same points as the first.
C29_ReindexReplaces ==
  Reindexed(1) =>
    LET h == Last(1)
        n == h.value.chunks_created
    IN /\ h.value.chunks_added = n
       /\ h.value.total_documents = n
       /\ DOMAIN points = 0..(n - 1)
       /\ \A i \in 0..(n - 1) : points[i] = PointOf(h, i)
       /\ (Len(hist[1]) = 2 /\ Prev(1).op = "ingest_directory" /\ Prev(1).force_reindex
           /\ Prev(1).status = "returned" /\ Prev(1).value.status = "success"
           /\ Prev(1).data_dir = h.data_dir)
          => points = h.before.points


\* ingest_directory finished
IngestDone(c) == Idle(c) /\ Last(c).op = "ingest_directory"

Untouched(h) ==
  /\ h.sent = << >>
  /\ points = h.before.points
  /\ exists = h.before.exists

\* C30: with force_reindex=True the collection is cleared after the check
\* of the directory and before the extraction: a missing directory raises
\* FileNotFoundError with the collection untouched; an existing directory
\* without any extractable document returns the warning with the collection
\* emptied; and with force_reindex=False the warning leaves the collection
\* unchanged.
C30_ClearBeforeExtract ==
  IngestDone(1) =>
    LET h == Last(1) IN
    /\ ~DirExists(h.data_dir) =>
         /\ h.status = "raised"
         /\ h.value = "FileNotFoundError"
         /\ Untouched(h)
    /\ (DirExists(h.data_dir) /\ extract_from_directory(h.data_dir) = << >>) =>
         /\ h.status = "returned"
         /\ h.value.status = "warning"
         /\ IF h.force_reindex
            THEN /\ h.sent # << >>
                 /\ h.sent[1].kind = "DELETE collection"
                 /\ Count = 0
            ELSE Untouched(h)

====
